---- MODULE Spec2Model ----
(***************************************************************************)
(* Model of AwsCompileCloudWatchLogEvents                                  *)
(* (lib/plugins/aws/package/compile/events/cloudWatchLog/index.js):        *)
(* compileCloudWatchLogEvents, the 'package:compileEvents' hook, and       *)
(* checkAndFixLogGroupSubscriptionFilterResourceLimitExceeded.             *)
(*                                                                         *)
(* A string is a sequence of characters; a character is one of the short   *)
(* strings of Chars.  A JavaScript value is a record with a type tag t.    *)
(***************************************************************************)
EXTENDS Integers, Sequences, FiniteSets, TLC

\* ------------------------------------------------------------- bounds
\* Most events of a service definition, all functions together.
MaxEvents == 3
\* Longest log group name or filter pattern a declaration compiled on its
\* own is given.
MaxLen == 3

\* ------------------------------------------------------------ strings
CR == "CR"
LF == "LF"
BS == "BS"           \* backslash
DQ == "DQ"           \* double quote
SQ == "SQ"           \* apostrophe

Chars == {"a", "g", "x", "n", "r", CR, LF, BS, DQ, SQ}

Str(s) == [t |-> "string", v |-> s]
Num(n) == [t |-> "number", v |-> n]
Bool(b) == [t |-> "boolean", v |-> b]
Undefined == [t |-> "undefined"]
Obj(lg, f) == [t |-> "object", logGroup |-> lg, filter |-> f]

\* JavaScript ToBoolean, as used by `!x`, `x && y` and `x ? y : z`.
Truthy(x) ==
  CASE x.t = "undefined" -> FALSE
    [] x.t = "string" -> x.v # <<>>
    [] x.t = "number" -> x.v # 0
    [] x.t = "boolean" -> x.v
    [] OTHER -> TRUE

\* s.replace(/\r?\n/g, ''): every LF, and a CR only when an LF follows it.
RECURSIVE RemoveCRLF(_)
RemoveCRLF(s) ==
  IF s = <<>> THEN <<>>
  ELSE IF Len(s) >= 2 /\ s[1] = CR /\ s[2] = LF THEN RemoveCRLF(SubSeq(s, 3, Len(s)))
  ELSE IF s[1] = LF THEN RemoveCRLF(Tail(s))
  ELSE <<s[1]>> \o RemoveCRLF(Tail(s))

\* s.indexOf(c): 0-based index of the first c, -1 when there is none.
RECURSIVE IndexFrom(_, _, _)
IndexFrom(s, c, i) ==
  IF i > Len(s) THEN -1
  ELSE IF s[i] = c THEN i - 1
  ELSE IndexFrom(s, c, i + 1)

IndexOf(s, c) == IndexFrom(s, c, 1)

\* s.replace(/\\("|\\|')/g, (match, g) => g): one left-to-right pass.
RECURSIVE ReplaceEscapes(_)
ReplaceEscapes(s) ==
  IF s = <<>> THEN <<>>
  ELSE IF Len(s) >= 2 /\ s[1] = BS /\ s[2] \in {DQ, BS, SQ}
    THEN <<s[2]>> \o ReplaceEscapes(SubSeq(s, 3, Len(s)))
  ELSE <<s[1]>> \o ReplaceEscapes(Tail(s))

\* UnescapeFilterPattern without the test on the two indices.
UnescapeFilterPattern_Always(FilterPattern) == ReplaceEscapes(FilterPattern)

\* "unescape quotes once when the first quote is detected escaped"
UnescapeFilterPattern(FilterPattern) ==
  LET idxFirstSlash == IndexOf(FilterPattern, BS)
      idxFirstQuote == IndexOf(FilterPattern, DQ)
  IN IF idxFirstSlash >= 0 /\ idxFirstQuote >= 0 /\ idxFirstQuote > idxFirstSlash
       THEN ReplaceEscapes(FilterPattern)
       ELSE FilterPattern

\* JSON.stringify of a string, without the enclosing quotes.
RECURSIVE JsonStringify(_)
JsonStringify(s) ==
  IF s = <<>> THEN <<>>
  ELSE (CASE s[1] = DQ -> <<BS, DQ>>
          [] s[1] = BS -> <<BS, BS>>
          [] s[1] = CR -> <<BS, "r">>
          [] s[1] = LF -> <<BS, "n">>
          [] OTHER -> <<s[1]>>) \o JsonStringify(Tail(s))

\* JSON.parse of the text between the quotes of a string literal of the
\* template.  ParseError stands for the SyntaxError JSON.parse throws: on a
\* raw control character, on a double quote (the literal ends and the rest
\* cannot be parsed, the alphabet having neither comma nor colon), on a
\* backslash followed by something that is no JSON escape, and on a final
\* backslash (it escapes the closing quote, and the literal runs into the
\* line break of the template).
ParseError == <<"SyntaxError">>

RECURSIVE JsonParseString(_)
JsonParseString(body) ==
  IF body = <<>> THEN <<>>
  ELSE IF body[1] \in {CR, LF, DQ} THEN ParseError
  ELSE IF body[1] = BS THEN
    IF Len(body) < 2 \/ body[2] \notin {DQ, BS, "n", "r"} THEN ParseError
    ELSE LET rest == JsonParseString(SubSeq(body, 3, Len(body)))
             c == CASE body[2] = "n" -> LF
                    [] body[2] = "r" -> CR
                    [] OTHER -> body[2]
         IN IF rest = ParseError THEN ParseError ELSE <<c>> \o rest
  ELSE LET rest == JsonParseString(Tail(body))
       IN IF rest = ParseError THEN ParseError ELSE <<body[1]>> \o rest

\* ------------------------------------------------- service definition
\* serverless.service.getAllFunctions(), in iteration order.
AllFunctions == <<"first", "second">>

FunctionNames == {AllFunctions[i] : i \in 1..Len(AllFunctions)}

\* An entry of functionObj.events that the pass has not read yet.  The
\* service definition is read-only input: a declaration is fixed the first
\* time a pass reads it and is the same in every later pass.
Unread == [cloudwatchLog |-> [t |-> "unread"]]

\* The declarations an entry of functionObj.events may hold.
EventDecls ==
  { [cloudwatchLog |-> c] : c \in
      { Undefined,                              \* an event of another kind
        Str(<<"a">>),
        Obj(Str(<<"a", CR, LF>>), Str(<<>>)),
        Obj(Str(<<"g">>), Str(<<BS, DQ, "x", CR, LF>>)),
        Str(<<"g", CR>>),                       \* the CR stays: no LF follows
        Obj(Undefined, Str(<<"x">>)),
        Obj(Str(<<"g">>), Num(5)),
        Num(5) } }

\* What getAccountId may resolve with.
AccountIds == {"111111111111"}

region == "us-east-1"
serviceName == "svc"
stage == "dev"

\* Get with the flag on by default.
Get_DefaultOn(value, default) == IF value.t = "undefined" THEN Bool(TRUE) ELSE value

\* _.get(this.provider, ['cloudWatchLogs', 'forceUpdateSubscriptionFilters'],
\* false): the default stands in for a value that is not set.
Get(value, default) == IF value.t = "undefined" THEN default ELSE value

\* ---------------------------------------------------- naming provider
getLambdaLogicalId(functionName) == <<functionName, "LambdaFunction", 0>>

getCloudWatchLogLogicalId(functionName, logsIndex) ==
  <<functionName, "LogsSubscriptionFilterCloudWatchLog", logsIndex>>

getLambdaCloudWatchLogPermissionLogicalId(functionName, logsIndex) ==
  <<functionName, "LambdaPermissionLogsSubscriptionFilterCloudWatchLog", logsIndex>>

\* ------------------------------------------------------------- state
VARIABLES
  functions,        \* functionName -> events list of the service definition
  forceUpdateSubscriptionFilters,   \* provider.cloudWatchLogs flag
  Resources,        \* compiledCloudFormationTemplate.Resources
  pc,               \* where the current call is
  passPromise,      \* state of the promise compileCloudWatchLogEvents returned
  passError,        \* what rejected it
  accountId,        \* value getAccountId resolved with, for this pass
  accountIdCalls,   \* getAccountId calls of this pass
  logGroupNames,    \* the registry of this pass
  fnPos,            \* index in AllFunctions of the function being mapped
  evPos,            \* index in its events of the event being mapped
  cloudWatchLogNumberInFunction,
  tasks,            \* promises of checkAndFix..., in scheduling order
  previous,         \* how the mapping of the last call that got to map ended
  probe             \* a declaration compiled on its own, and what came of it

vars == <<functions, forceUpdateSubscriptionFilters, Resources, pc,
          passPromise, passError, accountId, accountIdCalls, logGroupNames,
          fnPos, evPos, cloudWatchLogNumberInFunction, tasks, previous, probe>>

ValidationErrors ==
  {"MissingLogGroup", "InvalidFilterType", "InvalidEventShape", "DuplicateLogGroup"}

\* ------------------------------------------- validation, normalisation
\* Normalize where the string form keeps its line breaks.
Normalize_StringKeepsLineBreaks(cloudwatchLog) ==
  IF cloudwatchLog.t = "object" THEN
    IF ~Truthy(cloudwatchLog.logGroup)
      THEN [error |-> "MissingLogGroup"]
    ELSE IF Truthy(cloudwatchLog.filter) /\ cloudwatchLog.filter.t # "string"
      THEN [error |-> "InvalidFilterType"]
    ELSE [error |-> "none",
          LogGroupName |-> RemoveCRLF(cloudwatchLog.logGroup.v),
          FilterPattern |-> IF Truthy(cloudwatchLog.filter)
                              THEN RemoveCRLF(cloudwatchLog.filter.v)
                              ELSE <<>>]
  ELSE IF cloudwatchLog.t = "string" THEN
    [error |-> "none", LogGroupName |-> cloudwatchLog.v, FilterPattern |-> <<>>]
  ELSE [error |-> "InvalidEventShape"]

\* Lines 38-70: the shape checks and the CR/LF removal.
Normalize(cloudwatchLog) ==
  IF cloudwatchLog.t = "object" THEN
    IF ~Truthy(cloudwatchLog.logGroup)
      THEN [error |-> "MissingLogGroup"]
    ELSE IF Truthy(cloudwatchLog.filter) /\ cloudwatchLog.filter.t # "string"
      THEN [error |-> "InvalidFilterType"]
    ELSE [error |-> "none",
          LogGroupName |-> RemoveCRLF(cloudwatchLog.logGroup.v),
          FilterPattern |-> IF Truthy(cloudwatchLog.filter)
                              THEN RemoveCRLF(cloudwatchLog.filter.v)
                              ELSE <<>>]
  ELSE IF cloudwatchLog.t = "string" THEN
    [error |-> "none",
     LogGroupName |-> RemoveCRLF(cloudwatchLog.v),
     FilterPattern |-> <<>>]
  ELSE [error |-> "InvalidEventShape"]

\* IsDuplicate with the index compared to 0: a name at index 0 is missed.
IsDuplicate_MissesFirst(registry, LogGroupName) ==
  \E i \in 2..Len(registry) : registry[i] = LogGroupName

\* _.indexOf(logGroupNames, LogGroupName) !== -1
IsDuplicate(registry, LogGroupName) ==
  \E i \in 1..Len(registry) : registry[i] = LogGroupName

\* ---------------------------------------------------------- synthesis
\* JSON.parse(cloudWatchLogRuleTemplate), for a template that parses.
CloudWatchLogRule(functionName, logsIndex, LogGroupName, FilterPattern) ==
  [Type |-> "AWS::Logs::SubscriptionFilter",
   DependsOn |-> getLambdaCloudWatchLogPermissionLogicalId(functionName, logsIndex),
   Properties |->
     [LogGroupName |-> JsonParseString(LogGroupName),
      FilterPattern |-> JsonParseString(JsonStringify(FilterPattern)),
      DestinationArn |-> <<"Fn::GetAtt", getLambdaLogicalId(functionName), "Arn">>]]

\* JSON.parse(permissionTemplate), for a template that parses.
Permission(functionName, LogGroupName) ==
  [Type |-> "AWS::Lambda::Permission",
   Properties |->
     [FunctionName |-> <<"Fn::GetAtt", getLambdaLogicalId(functionName), "Arn">>,
      Action |-> "lambda:InvokeFunction",
      Principal |-> <<"logs.", "AWS::Region", ".", "AWS::URLSuffix">>,
      SourceArn |-> <<"arn:", "AWS::Partition", ":logs:", "AWS::Region", ":",
                      "AWS::AccountId", ":log-group:", JsonParseString(LogGroupName),
                      ":*">>]]

\* Whether JSON.parse throws on the templates: the log group name is put
\* between quotes as it is, the filter pattern through JSON.stringify.
TemplatesParse(LogGroupName, FilterPattern) ==
  /\ JsonParseString(LogGroupName) # ParseError
  /\ JsonParseString(JsonStringify(FilterPattern)) # ParseError

\* Lines 82-147: the logical ids and the two objects merged into the
\* template, newCloudWatchLogRuleObject and newPermissionObject.
Synthesize(functionName, logsIndex, LogGroupName, FilterPattern) ==
  LET pattern == UnescapeFilterPattern(FilterPattern)
  IN [cloudWatchLogLogicalId |-> getCloudWatchLogLogicalId(functionName, logsIndex),
      lambdaPermissionLogicalId |->
        getLambdaCloudWatchLogPermissionLogicalId(functionName, logsIndex),
      rule |-> CloudWatchLogRule(functionName, logsIndex, LogGroupName, pattern),
      permission |-> Permission(functionName, LogGroupName)]

\* _.merge on two objects: the keys of src are merged into dst, the other
\* keys of dst stay.
MergeLeaves(dst, src) ==
  [k \in DOMAIN dst \cup DOMAIN src |-> IF k \in DOMAIN src THEN src[k] ELSE dst[k]]

\* _.merge on two resource definitions: Properties is merged key by key,
\* the scalar and array members are taken from src.
MergeResource(dst, src) ==
  [k \in DOMAIN dst \cup DOMAIN src |->
     IF k \notin DOMAIN src THEN dst[k]
     ELSE IF k \notin DOMAIN dst THEN src[k]
     ELSE IF k = "Properties" THEN MergeLeaves(dst[k], src[k])
     ELSE src[k]]

\* Merge as an assignment of the new object to Resources.
Merge_Assigns(store, id, resource) == id :> resource

\* _.merge(Resources, newObject), newObject holding the one key id.
Merge(store, id, resource) ==
  IF id \in DOMAIN store
    THEN [store EXCEPT ![id] = MergeResource(store[id], resource)]
    ELSE store @@ (id :> resource)

\* ------------------------------------------------------ reconciliation
\* NewDestinationArn without the stage.
NewDestinationArn_NoStage(account, functionName) ==
  <<"arn:aws:lambda:", region, ":", account, ":function:",
    serviceName, "-", functionName>>

\* `arn:aws:lambda:${region}:${accountId}:function:${serviceName}-${stage}-${functionName}`
NewDestinationArn(account, functionName) ==
  <<"arn:aws:lambda:", region, ":", account, ":function:",
    serviceName, "-", stage, "-", functionName>>

\* The ARN of the lambda function the stack of this service creates for
\* functionName in the account.
FunctionArn(account, functionName) ==
  <<"arn:aws:lambda:", "us-east-1", ":", account, ":function:",
    "svc", "-", "dev", "-", functionName>>

\* The subscription filter a log group may have in the account: one that
\* forwards to a function of this service, or one left by another account.
LiveFilters ==
  { [destinationArn |-> FunctionArn("111111111111", "first"),
     filterName |-> "oldFilter"],
    [destinationArn |-> FunctionArn("111111111111", "second"),
     filterName |-> "otherFilter"],
    [destinationArn |-> FunctionArn("222222222222", "first"),
     filterName |-> "oldFilter"] }

\* What describeSubscriptionFilters may resolve with: subscriptionFilters,
\* empty or holding the one filter of the log group.
DescribeResponses == {<<>>} \cup {<<f>> : f \in LiveFilters}

\* NewTask for a reconciliation that asks getAccountId itself.
NewTask_ResolvesAgain(account, LogGroupName, functionName, fp, ep) ==
  [accountId |-> account, accountIdCalls |-> 1,
   logGroupName |-> LogGroupName, functionName |-> functionName,
   fn |-> fp, ev |-> ep,
   state |-> "describing", promise |-> "pending", outcome |-> "none",
   observed |-> "nothing", observedFilterName |-> "none",
   describeCalls |-> <<[logGroupName |-> LogGroupName]>>,
   deleteCalls |-> <<>>, warnings |-> 0]

\* The promise checkAndFix... returns, right after the call: it was given
\* accountId and makes no getAccountId call, and the
\* describeSubscriptionFilters request is out.  observed and
\* observedFilterName record what the log service answers.
NewTask(account, LogGroupName, functionName, fp, ep) ==
  [accountId |-> account, accountIdCalls |-> 0,
   logGroupName |-> LogGroupName, functionName |-> functionName,
   fn |-> fp, ev |-> ep,
   state |-> "describing", promise |-> "pending", outcome |-> "none",
   observed |-> "nothing", observedFilterName |-> "none",
   describeCalls |-> <<[logGroupName |-> LogGroupName]>>,
   deleteCalls |-> <<>>, warnings |-> 0]

\* OnDescribed without the return after the delete call: the warning follows.
OnDescribed_FallsThrough(task, subscriptionFilters, flag) ==
  IF subscriptionFilters = <<>>
    THEN [task EXCEPT !.state = "done", !.promise = "fulfilled",
                      !.outcome = "NoExistingFilter"]
  ELSE IF subscriptionFilters[1].destinationArn =
            NewDestinationArn(task.accountId, task.functionName)
    THEN [task EXCEPT !.state = "done", !.promise = "fulfilled",
                      !.outcome = "DestinationMatches"]
  ELSE IF Truthy(Get(flag, Bool(FALSE)))
    THEN [task EXCEPT !.state = "deleting",
                      !.deleteCalls = Append(@, [logGroupName |-> task.logGroupName,
                                                 filterName |->
                                                   subscriptionFilters[1].filterName]),
                      !.warnings = @ + 1]
  ELSE [task EXCEPT !.state = "done", !.promise = "fulfilled",
                    !.warnings = @ + 1,
                    !.outcome = "DestinationMismatchWarned"]

\* The .then callback of lines 187-223, run on the response.
OnDescribed(task, subscriptionFilters, flag) ==
  IF subscriptionFilters = <<>>
    THEN [task EXCEPT !.state = "done", !.promise = "fulfilled",
                      !.outcome = "NoExistingFilter"]
  ELSE LET subscriptionFilter == subscriptionFilters[1]
           oldDestinationArn == subscriptionFilter.destinationArn
           filterName == subscriptionFilter.filterName
           newDestinationArn == NewDestinationArn(task.accountId, task.functionName)
           shouldDeleteSubscriptionFilter == Truthy(Get(flag, Bool(FALSE)))
       IN IF oldDestinationArn = newDestinationArn
            THEN [task EXCEPT !.state = "done", !.promise = "fulfilled",
                              !.outcome = "DestinationMatches"]
          ELSE IF shouldDeleteSubscriptionFilter
            THEN [task EXCEPT !.state = "deleting",
                              !.deleteCalls = Append(@, [logGroupName |-> task.logGroupName,
                                                         filterName |-> filterName])]
          ELSE [task EXCEPT !.state = "done", !.promise = "fulfilled",
                            !.warnings = @ + 1,
                            !.outcome = "DestinationMismatchWarned"]

\* Catch for a chain that ends without the handler.
Catch_Rethrows(task, outcome) ==
  [task EXCEPT !.state = "done", !.promise = "rejected", !.outcome = outcome]

\* .catch(() => undefined), line 228: the handler of every rejection of
\* the chain before it, the describe call's and the .then callback's.
Catch(task, outcome) ==
  [task EXCEPT !.state = "done", !.promise = "fulfilled", !.outcome = outcome]

\* The promise the .then callback returned at line 214 has resolved.
OnDeleted(task) ==
  [task EXCEPT !.state = "done", !.promise = "fulfilled",
               !.outcome = "DestinationMismatchHealed"]

\* ------------------------------------------------------- orchestration
\* PromiseAll settling with the first promise that settles, as Promise.race.
PromiseAll_Race(ts) ==
  IF \E i \in 1..Len(ts) : ts[i].promise = "rejected" THEN "rejected"
  ELSE IF ts = <<>> \/ \E i \in 1..Len(ts) : ts[i].promise = "fulfilled" THEN "fulfilled"
  ELSE "pending"

\* Promise.all over the promises of all functions and events.
PromiseAll(ts) ==
  IF \E i \in 1..Len(ts) : ts[i].promise = "rejected" THEN "rejected"
  ELSE IF \A i \in 1..Len(ts) : ts[i].promise = "fulfilled" THEN "fulfilled"
  ELSE "pending"

AllSettled(ts) == \A i \in 1..Len(ts) : ts[i].promise # "pending"

\* The next entry the two nested maps visit, from (fp, ep) on: a function
\* without events, or at the end of its events, gives way to the next one.
\* fp = Len(AllFunctions) + 1 when the maps are over.
RECURSIVE NextEntry(_, _, _)
NextEntry(fns, fp, ep) ==
  IF fp > Len(AllFunctions) THEN <<fp, 1>>
  ELSE IF ep <= Len(fns[AllFunctions[fp]]) THEN <<fp, ep>>
  ELSE NextEntry(fns, fp + 1, 1)

\* NewRegistry for a registry that outlives the call.
NewRegistry_Kept(old) == old

\* The registry a call of compileCloudWatchLogEvents starts with, line 18.
NewRegistry(old) == <<>>

\* Validate where the name goes into the registry before the check.
Validate_RegistersDuplicate(cloudwatchLog, registry) ==
  LET norm == Normalize(cloudwatchLog)
  IN IF norm.error # "none" THEN [error |-> norm.error, registry |-> registry]
     ELSE IF IsDuplicate(registry, norm.LogGroupName)
       THEN [error |-> "DuplicateLogGroup",
             registry |-> Append(registry, norm.LogGroupName)]
     ELSE [error |-> "none", LogGroupName |-> norm.LogGroupName,
           FilterPattern |-> norm.FilterPattern,
           registry |-> Append(registry, norm.LogGroupName)]

\* Validate where the duplicate check looks for the name as declared, line
\* breaks included, in the registry of normalized names.
Validate_ChecksDeclaredName(cloudwatchLog, registry) ==
  LET norm == Normalize(cloudwatchLog)
      declared == IF cloudwatchLog.t = "string" THEN cloudwatchLog.v
                  ELSE cloudwatchLog.logGroup.v
  IN IF norm.error # "none" THEN [error |-> norm.error, registry |-> registry]
     ELSE IF IsDuplicate(registry, declared)
       THEN [error |-> "DuplicateLogGroup", registry |-> registry]
     ELSE [error |-> "none", LogGroupName |-> norm.LogGroupName,
           FilterPattern |-> norm.FilterPattern,
           registry |-> Append(registry, norm.LogGroupName)]

\* Lines 38-80: the shape checks, the normalisation, the duplicate check
\* and the push of the name; error is what is thrown.
Validate(cloudwatchLog, registry) ==
  LET norm == Normalize(cloudwatchLog)
  IN IF norm.error # "none" THEN [error |-> norm.error, registry |-> registry]
     ELSE IF IsDuplicate(registry, norm.LogGroupName)
       THEN [error |-> "DuplicateLogGroup", registry |-> registry]
     ELSE [error |-> "none", LogGroupName |-> norm.LogGroupName,
           FilterPattern |-> norm.FilterPattern,
           registry |-> Append(registry, norm.LogGroupName)]

\* CompileEvent with the reconciliation called before the merge, which is
\* still to come when the describeSubscriptionFilters request goes out.
CompileEvent_ReconcilesFirst(functionName, event, number, registry, store, account, fp, ep) ==
  LET unchanged == [thrown |-> "none", number |-> number, registry |-> registry,
                    store |-> store, scheduled |-> <<>>]
  IN IF ~Truthy(event.cloudwatchLog) THEN unchanged
     ELSE LET n == number + 1
              valid == Validate(event.cloudwatchLog, registry)
          IN IF valid.error # "none"
               THEN [unchanged EXCEPT !.thrown = valid.error, !.number = n,
                                      !.registry = valid.registry]
             ELSE IF ~TemplatesParse(valid.LogGroupName,
                                     UnescapeFilterPattern(valid.FilterPattern))
               THEN [unchanged EXCEPT !.thrown = "SyntaxError", !.number = n,
                                      !.registry = valid.registry]
             ELSE [thrown |-> "none", number |-> n, registry |-> valid.registry,
                   store |-> store,
                   scheduled |-> <<NewTask(account, valid.LogGroupName,
                                          functionName, fp, ep)>>]

\* CompileEvent with the counter advanced before the test of line 30, for
\* every event of the function.
CompileEvent_CountsEveryEvent(functionName, event, number, registry, store, account, fp, ep) ==
  LET n == number + 1
      unchanged == [thrown |-> "none", number |-> n, registry |-> registry,
                    store |-> store, scheduled |-> <<>>]
  IN IF ~Truthy(event.cloudwatchLog) THEN unchanged
     ELSE LET valid == Validate(event.cloudwatchLog, registry)
          IN IF valid.error # "none"
               THEN [unchanged EXCEPT !.thrown = valid.error, !.registry = valid.registry]
             ELSE IF ~TemplatesParse(valid.LogGroupName,
                                     UnescapeFilterPattern(valid.FilterPattern))
               THEN [unchanged EXCEPT !.thrown = "SyntaxError",
                                      !.registry = valid.registry]
             ELSE LET new == Synthesize(functionName, n, valid.LogGroupName,
                                        valid.FilterPattern)
                  IN [thrown |-> "none", number |-> n, registry |-> valid.registry,
                      store |-> Merge(Merge(store, new.cloudWatchLogLogicalId, new.rule),
                                      new.lambdaPermissionLogicalId, new.permission),
                      scheduled |-> <<NewTask(account, valid.LogGroupName,
                                             functionName, fp, ep)>>]

\* The map callback of lines 29-158 on one event: what it leaves behind.
\* thrown is "none" when it returns a promise.
CompileEvent(functionName, event, number, registry, store, account, fp, ep) ==
  LET unchanged == [thrown |-> "none", number |-> number, registry |-> registry,
                    store |-> store, scheduled |-> <<>>]
  IN IF ~Truthy(event.cloudwatchLog) THEN unchanged
     ELSE LET n == number + 1
              valid == Validate(event.cloudwatchLog, registry)
          IN IF valid.error # "none"
               THEN [unchanged EXCEPT !.thrown = valid.error, !.number = n,
                                      !.registry = valid.registry]
             ELSE IF ~TemplatesParse(valid.LogGroupName,
                                     UnescapeFilterPattern(valid.FilterPattern))
               THEN [unchanged EXCEPT !.thrown = "SyntaxError", !.number = n,
                                      !.registry = valid.registry]
             ELSE LET new == Synthesize(functionName, n, valid.LogGroupName,
                                        valid.FilterPattern)
                  IN [thrown |-> "none", number |-> n, registry |-> valid.registry,
                      store |-> Merge(Merge(store, new.cloudWatchLogLogicalId, new.rule),
                                      new.lambdaPermissionLogicalId, new.permission),
                      scheduled |-> <<NewTask(account, valid.LogGroupName,
                                             functionName, fp, ep)>>]

\* ------------------------------------------------------------ actions
\* compiledCloudFormationTemplate.Resources when the hook first runs: the
\* lambda functions the earlier package steps have compiled.
CompiledFunctions ==
  [id \in {getLambdaLogicalId(f) : f \in FunctionNames} |->
     [Type |-> "AWS::Lambda::Function"]]

\* The events of the first k functions of the service definition.
RECURSIVE NumberOfEvents(_, _)
NumberOfEvents(fns, k) ==
  IF k = 0 THEN 0 ELSE Len(fns[AllFunctions[k]]) + NumberOfEvents(fns, k - 1)

\* No declaration is compiled on its own.
NoProbe == [state |-> "none"]

Init ==
  /\ functions \in [FunctionNames -> {[i \in 1..n |-> Unread] : n \in 0..MaxEvents}]
  /\ NumberOfEvents(functions, Len(AllFunctions)) <= MaxEvents
  /\ forceUpdateSubscriptionFilters \in {Undefined, Bool(FALSE), Bool(TRUE)}
  /\ Resources = CompiledFunctions
  /\ pc = "idle"
  /\ passPromise = "none"
  /\ passError = "none"
  /\ accountId = "none"
  /\ accountIdCalls = 0
  /\ logGroupNames = <<>>
  /\ fnPos = 1
  /\ evPos = 1
  /\ cloudWatchLogNumberInFunction = 0
  /\ tasks = <<>>
  /\ previous = [thrown |-> "no call", Resources |-> Resources]
  /\ probe = NoProbe

\* compileCloudWatchLogEvents is called (lines 17-20): a new registry, and
\* the getAccountId request.  A call follows the previous one once that
\* one's promise and reconciliations are settled; previous keeps how the
\* mapping of that one ended and the template it left, unless it never
\* got to map.
StartPass ==
  /\ pc \in {"idle", "awaiting"}
  /\ passPromise # "pending"
  /\ AllSettled(tasks)
  /\ pc' = "getAccountId"
  /\ passPromise' = "pending"
  /\ passError' = "none"
  /\ accountId' = "none"
  /\ accountIdCalls' = 1
  /\ logGroupNames' = NewRegistry(logGroupNames)
  /\ fnPos' = 1
  /\ evPos' = 1
  /\ cloudWatchLogNumberInFunction' = 0
  /\ tasks' = <<>>
  /\ previous' = IF pc = "idle" \/ passError = "AccountIdError" THEN previous
                  ELSE [thrown |-> passError, Resources |-> Resources]
  /\ UNCHANGED <<functions, forceUpdateSubscriptionFilters, Resources, probe>>

\* getAccountId resolves: the .then callback of line 20 starts mapping.
\* With no event to map it returns Promise.all of resolved promises.
AccountIdResolves ==
  /\ pc = "getAccountId"
  /\ \E a \in AccountIds :
       LET first == NextEntry(functions, 1, 1)
           over == first[1] > Len(AllFunctions)
       IN /\ accountId' = a
          /\ fnPos' = first[1]
          /\ evPos' = first[2]
          /\ pc' = IF over THEN "awaiting" ELSE "mapping"
          /\ passPromise' = IF over THEN PromiseAll(tasks) ELSE "pending"
  /\ UNCHANGED <<functions, forceUpdateSubscriptionFilters, Resources,
                 passError, accountIdCalls, logGroupNames,
                 cloudWatchLogNumberInFunction, tasks, previous, probe>>

\* AccountIdRejects with the rejection handled and the mapping run all the
\* same, without an account id.
AccountIdRejects_MapsAnyway ==
  /\ pc = "getAccountId"
  /\ LET first == NextEntry(functions, 1, 1)
         over == first[1] > Len(AllFunctions)
     IN /\ fnPos' = first[1]
        /\ evPos' = first[2]
        /\ pc' = IF over THEN "awaiting" ELSE "mapping"
        /\ passPromise' = IF over THEN PromiseAll(tasks) ELSE "pending"
  /\ UNCHANGED <<functions, forceUpdateSubscriptionFilters, Resources,
                 passError, accountId, accountIdCalls, logGroupNames,
                 cloudWatchLogNumberInFunction, tasks, previous, probe>>

\* getAccountId rejects: the callback never runs.
AccountIdRejects ==
  /\ pc = "getAccountId"
  /\ pc' = "awaiting"
  /\ passPromise' = "rejected"
  /\ passError' = "AccountIdError"
  /\ UNCHANGED <<functions, forceUpdateSubscriptionFilters, Resources,
                 accountId, accountIdCalls, logGroupNames, fnPos, evPos,
                 cloudWatchLogNumberInFunction, tasks, previous, probe>>

\* One run of the events.map callback, on the event at (fnPos, evPos).  A
\* throw leaves the .then callback: the promise of the pass is rejected and
\* nothing more is mapped.  After the last event of the last function the
\* callback returns Promise.all(promises).
MapEvent ==
  /\ pc = "mapping"
  /\ LET functionName == AllFunctions[fnPos]
         declared == functions[functionName][evPos]
     IN \E event \in EventDecls :
          /\ declared = Unread \/ declared = event
          /\ LET r == CompileEvent(functionName, event, cloudWatchLogNumberInFunction,
                                   logGroupNames, Resources, accountId, fnPos, evPos)
                 next == NextEntry(functions, fnPos, evPos + 1)
                 over == next[1] > Len(AllFunctions)
                 ts == tasks \o r.scheduled
             IN /\ functions' = [functions EXCEPT ![functionName][evPos] = event]
                /\ logGroupNames' = r.registry
                /\ Resources' = r.store
                /\ tasks' = ts
                /\ IF r.thrown # "none"
                     THEN /\ pc' = "awaiting"
                          /\ passPromise' = "rejected"
                          /\ passError' = r.thrown
                          /\ cloudWatchLogNumberInFunction' = r.number
                          /\ UNCHANGED <<fnPos, evPos>>
                     ELSE /\ fnPos' = next[1]
                          /\ evPos' = next[2]
                          /\ cloudWatchLogNumberInFunction' =
                               IF next[1] = fnPos THEN r.number ELSE 0
                          /\ pc' = IF over THEN "awaiting" ELSE "mapping"
                          /\ passPromise' = IF over THEN PromiseAll(ts) ELSE "pending"
                          /\ UNCHANGED passError
  /\ UNCHANGED <<forceUpdateSubscriptionFilters, accountId, accountIdCalls, previous,
                 probe>>

\* Settle that takes the log groups of the settled reconciliations out of
\* the registry.
Settle_Unregisters(ts) ==
  /\ tasks' = ts
  /\ passPromise' = IF passPromise = "pending" THEN PromiseAll(ts) ELSE passPromise
  /\ logGroupNames' =
       SelectSeq(logGroupNames,
                 LAMBDA g : \A i \in 1..Len(ts) :
                              ts[i].logGroupName = g => ts[i].promise = "pending")
  /\ UNCHANGED <<functions, forceUpdateSubscriptionFilters, Resources, pc,
                 passError, accountId, accountIdCalls, fnPos, evPos,
                 cloudWatchLogNumberInFunction, previous, probe>>

\* A reconciliation promise has changed: Promise.all follows, unless the
\* promise of the pass is settled already.
Settle(ts) ==
  /\ tasks' = ts
  /\ passPromise' = IF passPromise = "pending" THEN PromiseAll(ts) ELSE passPromise
  /\ UNCHANGED <<functions, forceUpdateSubscriptionFilters, Resources, pc,
                 passError, accountId, accountIdCalls, logGroupNames, fnPos, evPos,
                 cloudWatchLogNumberInFunction, previous, probe>>

\* What the log service answered, against the lambda function the stack
\* will create for functionName.
Observed(subscriptionFilters, functionName) ==
  IF subscriptionFilters = <<>> THEN "noFilter"
  ELSE IF subscriptionFilters[1].destinationArn = FunctionArn(accountId, functionName)
    THEN "sameDestination"
  ELSE "otherDestination"

\* DescribeResolves for a request that is dropped once the pass has failed.
DescribeResolves_UnlessFailed(i) ==
  /\ pc = "awaiting"
  /\ passPromise # "rejected"
  /\ tasks[i].state = "describing"
  /\ \E subscriptionFilters \in DescribeResponses :
       LET seen == [tasks[i] EXCEPT
                      !.observed = Observed(subscriptionFilters, tasks[i].functionName),
                      !.observedFilterName =
                         IF subscriptionFilters = <<>> THEN "none"
                         ELSE subscriptionFilters[1].filterName]
       IN Settle([tasks EXCEPT ![i] = OnDescribed(seen, subscriptionFilters,
                                                  forceUpdateSubscriptionFilters)])

\* The callbacks below run from the event loop, hence after the mapping.
DescribeResolves(i) ==
  /\ pc = "awaiting"
  /\ tasks[i].state = "describing"
  /\ \E subscriptionFilters \in DescribeResponses :
       LET seen == [tasks[i] EXCEPT
                      !.observed = Observed(subscriptionFilters, tasks[i].functionName),
                      !.observedFilterName =
                         IF subscriptionFilters = <<>> THEN "none"
                         ELSE subscriptionFilters[1].filterName]
       IN Settle([tasks EXCEPT ![i] = OnDescribed(seen, subscriptionFilters,
                                                  forceUpdateSubscriptionFilters)])

DescribeRejects(i) ==
  /\ pc = "awaiting"
  /\ tasks[i].state = "describing"
  /\ Settle([tasks EXCEPT ![i] = Catch([@ EXCEPT !.observed = "failure"],
                                      "QueryFailedIgnored")])

DeleteResolves(i) ==
  /\ pc = "awaiting"
  /\ tasks[i].state = "deleting"
  /\ Settle([tasks EXCEPT ![i] = OnDeleted(@)])

DeleteRejects(i) ==
  /\ pc = "awaiting"
  /\ tasks[i].state = "deleting"
  /\ Settle([tasks EXCEPT ![i] = Catch(@, "DeleteFailed")])

Next ==
  \/ StartPass
  \/ AccountIdResolves
  \/ AccountIdRejects
  \/ MapEvent
  \/ \E i \in 1..Len(tasks) : DescribeResolves(i)
  \/ \E i \in 1..Len(tasks) : DescribeRejects(i)
  \/ \E i \in 1..Len(tasks) : DeleteResolves(i)
  \/ \E i \in 1..Len(tasks) : DeleteRejects(i)

Spec == Init /\ [][Next]_vars

\* ------------------------------------------------------------- claims
TaskIds == 1..Len(tasks)

\* The flag as the configuration gives it: set to true, or not.
FlagEnabled == forceUpdateSubscriptionFilters = Bool(TRUE)

\* The mapping is over and did not throw, and every reconciliation is settled.
PassRanToEnd == pc = "awaiting" /\ passError = "none" /\ AllSettled(tasks)

\* The declaration the reconciliation i was scheduled for.
DeclarationOf(i) == functions[AllFunctions[tasks[i].fn]][tasks[i].ev].cloudwatchLog

\* The log group name of a declaration with its line breaks taken out.
DeclaredLogGroup(cloudwatchLog) ==
  RemoveCRLF(IF cloudwatchLog.t = "string" THEN cloudwatchLog.v
             ELSE cloudwatchLog.logGroup.v)

\* C1: with forceUpdateSubscriptionFilters disabled or absent no
\* deleteSubscriptionFilter call is made in any reachable state; a
\* reconciliation that finds a filter with another destination logs exactly
\* one warning and is fulfilled, and a pass that ran to its end succeeds.
C1_NoDeleteWithoutFlag ==
  ~FlagEnabled =>
    /\ \A i \in TaskIds : tasks[i].deleteCalls = <<>>
    /\ \A i \in TaskIds :
         tasks[i].observed = "otherDestination" =>
           /\ tasks[i].warnings = 1
           /\ tasks[i].promise = "fulfilled"
    /\ PassRanToEnd => passPromise = "fulfilled"

C1_Witness ==
  /\ forceUpdateSubscriptionFilters = Undefined
  /\ PassRanToEnd
  /\ Len(tasks) = 2
  /\ \A i \in TaskIds : tasks[i].observed = "otherDestination"

\* C2: with the flag enabled, a reconciliation that finds a filter with
\* another destination issues exactly one deleteSubscriptionFilter call,
\* for the normalized log group name of its event and the filterName of the
\* response, never before the response, logs no warning, and, the delete
\* succeeding, is fulfilled; a pass that ran to its end succeeds.
C2_OneDeleteWithFlag ==
  FlagEnabled =>
    /\ \A i \in TaskIds :
         tasks[i].observed = "otherDestination" =>
           /\ tasks[i].deleteCalls =
                <<[logGroupName |-> DeclaredLogGroup(DeclarationOf(i)),
                   filterName |-> tasks[i].observedFilterName]>>
           /\ tasks[i].warnings = 0
           /\ tasks[i].outcome = "DestinationMismatchHealed" =>
                tasks[i].promise = "fulfilled"
    /\ \A i \in TaskIds : tasks[i].observed = "nothing" => tasks[i].deleteCalls = <<>>
    /\ PassRanToEnd => passPromise = "fulfilled"

C2_Witness ==
  /\ FlagEnabled
  /\ PassRanToEnd
  /\ \E i \in TaskIds :
       /\ tasks[i].outcome = "DestinationMismatchHealed"
       /\ tasks[i].observedFilterName = "otherFilter"
       /\ DeclarationOf(i).t = "object"
       /\ DeclarationOf(i).logGroup.v # tasks[i].logGroupName

\* C3: a failure of the deleteSubscriptionFilter call rejects the promise of
\* that reconciliation and the promise of the pass.
C3_DeleteFailureSurfaced ==
  \A i \in TaskIds :
    tasks[i].outcome = "DeleteFailed" =>
      /\ tasks[i].promise = "rejected"
      /\ passPromise = "rejected"

\* C4: a reconciliation that finds no filter, or a filter whose destination
\* is the expected one, makes no deleteSubscriptionFilter call and logs no
\* warning, whatever the flag.
C4_NothingToHeal ==
  \A i \in TaskIds :
    tasks[i].observed \in {"noFilter", "sameDestination"} =>
      /\ tasks[i].deleteCalls = <<>>
      /\ tasks[i].warnings = 0
      /\ tasks[i].promise = "fulfilled"

C4_Witness ==
  /\ FlagEnabled
  /\ \E i, j \in TaskIds :
       /\ tasks[i].observed = "sameDestination"
       /\ tasks[j].observed = "noFilter"

\* C5: a reconciliation whose describeSubscriptionFilters call fails is
\* fulfilled, with no deleteSubscriptionFilter call and no warning; it is
\* never the one that rejects the promise of the pass.
C5_QueryFailureSwallowed ==
  /\ \A i \in TaskIds :
       tasks[i].observed = "failure" =>
         /\ tasks[i].promise = "fulfilled"
         /\ tasks[i].deleteCalls = <<>>
         /\ tasks[i].warnings = 0
  /\ (passPromise = "rejected" /\ passError = "none") =>
       \E j \in TaskIds : tasks[j].promise = "rejected" /\ tasks[j].observed # "failure"
  /\ (PassRanToEnd /\ \A i \in TaskIds : tasks[i].observed = "failure") =>
       passPromise = "fulfilled"

C5_Witness ==
  /\ FlagEnabled
  /\ PassRanToEnd
  /\ Len(tasks) = 2
  /\ tasks[1].observed = "failure"
  /\ tasks[2].outcome = "DeleteFailed"

\* The entries of the service definition, in the order the maps visit them.
RECURSIVE EntriesFrom(_, _)
EntriesFrom(fp, ep) ==
  IF fp > Len(AllFunctions) THEN <<>>
  ELSE IF ep > Len(functions[AllFunctions[fp]]) THEN EntriesFrom(fp + 1, 1)
  ELSE <<<<fp, ep>>>> \o EntriesFrom(fp, ep + 1)

Entries == EntriesFrom(1, 1)

Before(p, q) == p[1] < q[1] \/ (p[1] = q[1] /\ p[2] < q[2])

DeclarationAt(p) == functions[AllFunctions[p[1]]][p[2]].cloudwatchLog

\* The map callback threw, at the entry (fnPos, evPos).
MappingThrew == passError \notin {"none", "AccountIdError"}

\* The map callback of this call has run on entry p.
Mapped(p) ==
  /\ pc \in {"mapping", "awaiting"}
  /\ \/ Before(p, <<fnPos, evPos>>)
     \/ p = <<fnPos, evPos>> /\ MappingThrew

\* Entry p declares a log subscription of a valid shape.
WellFormed(p) ==
  LET c == DeclarationAt(p)
  IN \/ c.t = "string" /\ c.v # <<>>
     \/ /\ c.t = "object"
        /\ c.logGroup.t = "string" /\ c.logGroup.v # <<>>
        /\ c.filter.t \in {"undefined", "string"}

\* Entry p carries a cloudwatchLog declaration, valid or not.
CarriesCloudwatchLog(p) ==
  LET c == DeclarationAt(p)
  IN c.t \in {"object", "number"} \/ (c.t = "string" /\ c.v # <<>>)

\* The 1-based rank of entry p among the entries of its function that
\* carry a cloudwatchLog declaration.
RankInFunction(p) ==
  Cardinality({e \in 1..p[2] : CarriesCloudwatchLog(<<p[1], e>>)})

\* The log group names of a sequence of entries, in order.
RECURSIVE LogGroupsOf(_)
LogGroupsOf(ps) ==
  IF ps = <<>> THEN <<>>
  ELSE <<DeclaredLogGroup(DeclarationAt(Head(ps)))>> \o LogGroupsOf(Tail(ps))

\* The mapped entries that got as far as the registry: the well-formed
\* ones, but for the one the duplicate check stopped.
Registered(p) ==
  /\ Mapped(p)
  /\ WellFormed(p)
  /\ ~(p = <<fnPos, evPos>> /\ passError = "DuplicateLogGroup")

\* C6: two mapped events of one call whose normalized log group names are
\* equal, in one function or in two, in either form, reject the pass with
\* the duplicated-log-group error at the second of them; the registry never
\* holds a name twice, and holds the names of this call only.
C6_DuplicateLogGroupFails ==
  /\ \A i, j \in 1..Len(logGroupNames) : i # j => logGroupNames[i] # logGroupNames[j]
  /\ \A i, j \in 1..Len(Entries) :
       LET p == Entries[i]
           q == Entries[j]
       IN (/\ i < j
           /\ Mapped(p) /\ Mapped(q)
           /\ WellFormed(p) /\ WellFormed(q)
           /\ DeclaredLogGroup(DeclarationAt(p)) = DeclaredLogGroup(DeclarationAt(q)))
          => /\ passPromise = "rejected"
             /\ passError = "DuplicateLogGroup"
             /\ q = <<fnPos, evPos>>
  /\ logGroupNames = LogGroupsOf(SelectSeq(Entries, Registered))

C6_Witness ==
  /\ previous.thrown = "DuplicateLogGroup"
  /\ passError = "DuplicateLogGroup"
  /\ fnPos = 2
  /\ \E e \in 1..Len(functions["first"]) :
       /\ functions["first"][e].cloudwatchLog.t = "string"
       /\ DeclarationAt(<<fnPos, evPos>>).t = "object"
       /\ DeclarationAt(<<fnPos, evPos>>).logGroup.v # functions["first"][e].cloudwatchLog.v
       /\ DeclaredLogGroup(DeclarationAt(<<fnPos, evPos>>)) =
            DeclaredLogGroup(functions["first"][e].cloudwatchLog)

\* The template before the first call.
InitialResources == CompiledFunctions

\* The template with the resource pairs of a sequence of entries merged in.
RECURSIVE MergedInto(_, _)
MergedInto(store, ps) ==
  IF ps = <<>> THEN store
  ELSE LET p == Head(ps)
           f == AllFunctions[p[1]]
           norm == Normalize(DeclarationAt(p))
           new == Synthesize(f, RankInFunction(p), norm.LogGroupName, norm.FilterPattern)
       IN MergedInto(Merge(Merge(store, new.cloudWatchLogLogicalId, new.rule),
                           new.lambdaPermissionLogicalId, new.permission),
                     Tail(ps))

\* C7: a validation error at an event rejects the pass at once: the event
\* adds nothing to the template nor to the registry, no later event of any
\* function is read, merged or reconciled, and the resource pairs of the
\* events before it stay in the template.
C7_ValidationFailsFast ==
  passError \in ValidationErrors =>
    LET failed == <<fnPos, evPos>>
        earlier == SelectSeq(Entries, LAMBDA p : Before(p, failed) /\ WellFormed(p))
    IN /\ passPromise = "rejected"
       /\ pc = "awaiting"
       /\ logGroupNames = LogGroupsOf(earlier)
       /\ Resources = MergedInto(InitialResources, earlier)
       /\ Len(tasks) = Len(earlier)
       /\ \A i \in TaskIds : <<tasks[i].fn, tasks[i].ev>> = earlier[i]
       /\ \A i \in 1..Len(Entries) :
            Before(failed, Entries[i]) => DeclarationAt(Entries[i]).t = "unread"

C7_Witness ==
  /\ passError = "InvalidFilterType"
  /\ fnPos = 1 /\ evPos = 2
  /\ Len(tasks) = 1
  /\ Len(functions["second"]) = 1
  /\ previous.thrown = "InvalidFilterType"

\* C8 as claimed: the promise of the pass is settled only when every
\* reconciliation scheduled during the pass is settled.
C8_SettledOnlyWhenAllSettled ==
  passPromise \in {"fulfilled", "rejected"} => AllSettled(tasks)

\* C8, amended: the promise of the pass is fulfilled only when the mapping
\* is over and every reconciliation scheduled during the pass is settled; it
\* is rejected by a throw of the mapping or by getAccountId, and then the
\* reconciliations scheduled before the throw may still be pending.
C8_FulfilledOnlyWhenAllSettled ==
  /\ passPromise = "fulfilled" =>
       /\ pc = "awaiting"
       /\ passError = "none"
       /\ AllSettled(tasks)
       /\ Len(tasks) = Len(SelectSeq(Entries, WellFormed))
  /\ passPromise = "rejected" => passError # "none"

C8_Witness ==
  /\ passPromise = "fulfilled"
  /\ Len(tasks) = 2
  /\ tasks[1].fn = 1 /\ tasks[2].fn = 2

\* C9: when the mapping of a call went through, the mapping of the next
\* call on the same declarations and the same template goes through too and
\* leaves the template as the first left it.
C9_MappingIdempotent ==
  previous.thrown = "none" =>
    /\ ~MappingThrew
    /\ Resources = previous.Resources
    /\ pc = "awaiting" /\ passError = "none" =>
         Resources = MergedInto(InitialResources, SelectSeq(Entries, WellFormed))

C9_Witness ==
  /\ previous.thrown = "none"
  /\ pc = "awaiting" /\ passError = "none"
  /\ Len(tasks) = 2
  /\ Cardinality(DOMAIN Resources) = Cardinality(DOMAIN InitialResources) + 4

\* ----------------------------------- one declaration, compiled on its own
\* The log group names the forms are compared on: the strings of at most
\* MaxLen characters over letters, line breaks, backslash and double quote.
NameChars == {"a", CR, LF, BS, DQ}

Names == UNION {[1..n -> NameChars] : n \in 0..MaxLen}

\* The filter patterns a declaration is compiled with: the strings of at
\* most MaxLen characters over a letter, the three characters the unescape
\* looks for and the line breaks, and the patterns of the documentation.
PatternChars == {"x", BS, DQ, SQ, CR, LF}

Patterns ==
  UNION {[1..n -> PatternChars] : n \in 0..MaxLen}
    \cup {<<BS, DQ, "x", BS, DQ>>, <<DQ, "x", DQ>>, <<BS, DQ, "x", CR, LF, BS, DQ>>}

\* The map callback is given, for a function, a count of earlier
\* cloudwatchLog events and a log group name, the three declarations of
\* that name without a filter, each on a fresh registry and template.
PureInit ==
  /\ functions = [f \in FunctionNames |-> <<>>]
  /\ forceUpdateSubscriptionFilters = Undefined
  /\ Resources = CompiledFunctions
  /\ pc = "idle"
  /\ passPromise = "none"
  /\ passError = "none"
  /\ accountId = "none"
  /\ accountIdCalls = 0
  /\ logGroupNames = <<>>
  /\ fnPos = 1
  /\ evPos = 1
  /\ cloudWatchLogNumberInFunction = 0
  /\ tasks = <<>>
  /\ previous = [thrown |-> "no call", Resources |-> Resources]
  /\ probe \in {[state |-> "declared", functionName |-> f, number |-> n, G |-> g] :
                  f \in FunctionNames, n \in 0..(MaxEvents - 1), g \in Names}
              \cup {[state |-> "filter", P |-> p] : p \in Patterns}

CompileForms ==
  /\ probe.state = "declared"
  /\ LET Compiled(cloudwatchLog) ==
           CompileEvent(probe.functionName, [cloudwatchLog |-> cloudwatchLog],
                        probe.number, <<>>, CompiledFunctions, "111111111111", 1, 1)
     IN probe' = [state |-> "compiled", functionName |-> probe.functionName,
                  number |-> probe.number, G |-> probe.G,
                  string |-> Compiled(Str(probe.G)),
                  object |-> Compiled(Obj(Str(probe.G), Undefined)),
                  objectEmptyFilter |-> Compiled(Obj(Str(probe.G), Str(<<>>)))]
  /\ UNCHANGED <<functions, forceUpdateSubscriptionFilters, Resources, pc, passPromise,
                 passError, accountId, accountIdCalls, logGroupNames, fnPos, evPos,
                 cloudWatchLogNumberInFunction, tasks, previous>>

\* The map callback is given {logGroup: 'g', filter: P}, first event of
\* function first, on a fresh registry and template.
CompileFilter ==
  /\ probe.state = "filter"
  /\ probe' = [state |-> "filtered", P |-> probe.P,
               result |-> CompileEvent("first",
                                       [cloudwatchLog |-> Obj(Str(<<"g">>), Str(probe.P))],
                                       0, <<>>, CompiledFunctions, "111111111111", 1, 1)]
  /\ UNCHANGED <<functions, forceUpdateSubscriptionFilters, Resources, pc, passPromise,
                 passError, accountId, accountIdCalls, logGroupNames, fnPos, evPos,
                 cloudWatchLogNumberInFunction, tasks, previous>>

PureNext == CompileForms \/ CompileFilter

PureSpec == PureInit /\ [][PureNext]_vars

\* C10: for every function, every count of earlier events and every
\* non-empty log group name G, the declarations G, {logGroup: G} and
\* {logGroup: G, filter: ''} compile to the same thing: the same logical
\* ids, the same two resource definitions, with an empty filter pattern.
C10_FormsAgree ==
  (probe.state = "compiled" /\ probe.G # <<>>) =>
    /\ probe.string = probe.object
    /\ probe.string = probe.objectEmptyFilter
    /\ probe.string.thrown = "none" =>
         LET id == getCloudWatchLogLogicalId(probe.functionName, probe.number + 1)
         IN /\ DOMAIN probe.string.store = DOMAIN CompiledFunctions \cup
                 {id, getLambdaCloudWatchLogPermissionLogicalId(probe.functionName,
                                                                probe.number + 1)}
            /\ probe.string.store[id].Properties.FilterPattern = <<>>

C10_Witness ==
  /\ probe.state = "compiled"
  /\ probe.G = <<"a", CR, LF>>
  /\ probe.number = 1
  /\ probe.string.thrown = "none"
  /\ probe.objectEmptyFilter.store[getCloudWatchLogLogicalId(probe.functionName, 2)]
       .Properties.LogGroupName = <<"a">>

\* The pattern of the subscription filter the probe {logGroup: 'g',
\* filter: P} was compiled to.
EmittedPattern ==
  probe.result.store[getCloudWatchLogLogicalId("first", 1)].Properties.FilterPattern

\* Whether a left-to-right scan for backslash+quote, backslash+backslash
\* and backslash+apostrophe that resumes after each match finds a match
\* starting at position i of s: the pair is there, and no match starts at i - 1.
RECURSIVE EscapeStartsAt(_, _)
EscapeStartsAt(s, i) ==
  /\ i >= 1 /\ i < Len(s)
  /\ s[i] = BS /\ s[i + 1] \in {DQ, BS, SQ}
  /\ ~EscapeStartsAt(s, i - 1)

\* s from position i on, without the backslashes the matches start with.
RECURSIVE WithoutEscapes(_, _)
WithoutEscapes(s, i) ==
  IF i > Len(s) THEN <<>>
  ELSE (IF EscapeStartsAt(s, i) THEN <<>> ELSE <<s[i]>>) \o WithoutEscapes(s, i + 1)

\* C11: the emitted filter pattern is, for a pattern (line breaks taken
\* out) that holds a backslash and a double quote with the first backslash
\* before the first double quote, the pattern with every backslash+quote,
\* backslash+backslash and backslash+apostrophe replaced by its second
\* character in one left-to-right pass that is not rescanned, and the
\* pattern itself in every other case; \"x\" gives "x" and "x" stays "x".
C11_UnescapedOnce ==
  probe.state = "filtered" =>
    LET s == RemoveCRLF(probe.P)
        slashes == {i \in 1..Len(s) : s[i] = BS}
        quotes == {i \in 1..Len(s) : s[i] = DQ}
        escaped == /\ slashes # {} /\ quotes # {}
                   /\ \E b \in slashes : \A q \in quotes : b < q
    IN /\ probe.result.thrown = "none"
       /\ escaped => EmittedPattern = WithoutEscapes(s, 1)
       /\ ~escaped => EmittedPattern = s
       /\ probe.P = <<BS, DQ, "x", BS, DQ>> => EmittedPattern = <<DQ, "x", DQ>>
       /\ probe.P = <<DQ, "x", DQ>> => EmittedPattern = <<DQ, "x", DQ>>

C11_Witness ==
  /\ probe.state = "filtered"
  /\ probe.P = <<BS, BS, DQ>>
  /\ EmittedPattern = <<BS, DQ>>

\* A string without its carriage returns and line feeds, the other
\* characters in order.
StripLineBreaks(s) == SelectSeq(s, LAMBDA c : c \notin {CR, LF})

\* C12: the normalized log group name and the normalized filter pattern of
\* a declaration hold no carriage return and no line feed, also for a
\* carriage return that no line feed follows: they are the declared strings
\* with these characters taken out and the others kept in order.
C12_NoLineBreaksLeft ==
  /\ (probe.state = "compiled" /\ probe.G # <<>>) =>
       \A r \in {probe.string, probe.object, probe.objectEmptyFilter} :
         r.registry = <<StripLineBreaks(probe.G)>>
  /\ probe.state = "filtered" =>
       \A i \in 1..Len(EmittedPattern) : EmittedPattern[i] \notin {CR, LF}

\* C13: after a validation error the reconciliations scheduled for the
\* earlier events are not cancelled.  Each one that is pending can still
\* get its answer, none is settled without one, a filter with another
\* destination is deleted when the flag is enabled, and whatever they do
\* the pass stays rejected with the validation error until the next call.
C13_NoCancellation ==
  /\ [](passError \in ValidationErrors =>
         /\ passPromise = "rejected"
         /\ \A i \in TaskIds :
              /\ tasks[i].state = "describing" => ENABLED DescribeResolves(i)
              /\ tasks[i].state = "deleting" => ENABLED DeleteResolves(i)
              /\ tasks[i].promise = "pending" <=> tasks[i].state # "done"
              /\ tasks[i].state = "done" => tasks[i].observed # "nothing"
              /\ (FlagEnabled /\ tasks[i].observed = "otherDestination") =>
                   Len(tasks[i].deleteCalls) = 1)
  /\ [][(passError \in ValidationErrors /\ pc' # "getAccountId") =>
          /\ passError' = passError
          /\ passPromise' = passPromise
          /\ Len(tasks') = Len(tasks)]_vars

C13_Witness ==
  /\ passError \in ValidationErrors
  /\ passPromise = "rejected"
  /\ FlagEnabled
  /\ Len(tasks) = 2
  /\ tasks[1].outcome = "DestinationMismatchHealed"
  /\ tasks[2].outcome = "DestinationMismatchHealed"

\* The resource pair the event of reconciliation i is compiled to.
PairOf(i) ==
  LET p == <<tasks[i].fn, tasks[i].ev>>
      norm == Normalize(DeclarationAt(p))
  IN Synthesize(AllFunctions[p[1]], RankInFunction(p), norm.LogGroupName,
                norm.FilterPattern)

CallsFor(kind, name) ==
  {<<i, k>> \in TaskIds \X (1..2) :
     LET calls == IF kind = "describe" THEN tasks[i].describeCalls
                  ELSE tasks[i].deleteCalls
     IN k <= Len(calls) /\ calls[k].logGroupName = name}

\* C15: in a pass no two reconciliations are for the same log group name,
\* whatever the order their callbacks run in: a log group gets at most one
\* describeSubscriptionFilters and at most one deleteSubscriptionFilter
\* request, each from the reconciliation of that log group.
C15_OneTaskPerLogGroup ==
  /\ \A i, j \in TaskIds : i # j => tasks[i].logGroupName # tasks[j].logGroupName
  /\ \A i \in TaskIds :
       /\ Len(tasks[i].describeCalls) = 1
       /\ Len(tasks[i].deleteCalls) <= 1
       /\ Cardinality(CallsFor("describe", tasks[i].logGroupName)) = 1
       /\ Cardinality(CallsFor("delete", tasks[i].logGroupName)) <= 1
       /\ \A c \in CallsFor("describe", tasks[i].logGroupName)
                  \cup CallsFor("delete", tasks[i].logGroupName) : c[1] = i

C15_Witness ==
  /\ Len(tasks) = 2
  /\ tasks[1].fn = tasks[2].fn
  /\ tasks[1].state = "deleting"
  /\ tasks[2].state = "deleting"
  /\ tasks[1].observedFilterName = tasks[2].observedFilterName

\* The entries of function number fp, up to entry ep, that carry a
\* cloudwatchLog declaration.
CarryingUpTo(fp, ep) == {e \in 1..ep : CarriesCloudwatchLog(<<fp, e>>)}

\* The logical ids of the pairs numbered 1..n of a function.
IdsOf(functionName, n) ==
  UNION {{getCloudWatchLogLogicalId(functionName, k),
          getLambdaCloudWatchLogPermissionLogicalId(functionName, k)} : k \in 1..n}

\* C16: the index an event is named with is its 1-based rank among the
\* events of its function that carry a cloudwatchLog declaration.  The
\* counter is that rank all along the mapping and restarts with every
\* function; an event without the declaration leaves the counter, the
\* template, the registry and the reconciliations alone; no two events of
\* a pass get the same function name and index, and a function with n such
\* events gets the indices 1..n.
C16_IndexIsRankInFunction ==
  /\ [](/\ pc = "mapping" =>
            cloudWatchLogNumberInFunction = Cardinality(CarryingUpTo(fnPos, evPos - 1))
        /\ \A i \in TaskIds :
             LET p == <<tasks[i].fn, tasks[i].ev>>
                 id == getCloudWatchLogLogicalId(tasks[i].functionName, RankInFunction(p))
             IN /\ RankInFunction(p) >= 1
                /\ id \in DOMAIN Resources
                /\ Resources[id].Properties.LogGroupName = tasks[i].logGroupName
                /\ \A j \in TaskIds :
                     (i # j /\ tasks[j].fn = p[1]) =>
                        RankInFunction(<<tasks[j].fn, tasks[j].ev>>) # RankInFunction(p)
        /\ (pc = "awaiting" /\ passError = "none") =>
             /\ DOMAIN Resources = DOMAIN InitialResources \cup
                  UNION {IdsOf(AllFunctions[fp],
                               Cardinality(CarryingUpTo(fp, Len(functions[AllFunctions[fp]]))))
                         : fp \in 1..Len(AllFunctions)}
             /\ Len(tasks) = Len(SelectSeq(Entries, CarriesCloudwatchLog))
             /\ Len(logGroupNames) = Len(tasks))
  /\ [][(pc = "mapping"
          /\ functions'[AllFunctions[fnPos]][evPos].cloudwatchLog = Undefined) =>
          /\ Resources' = Resources
          /\ logGroupNames' = logGroupNames
          /\ tasks' = tasks
          /\ passError' = "none"
          /\ fnPos' = fnPos => cloudWatchLogNumberInFunction' = cloudWatchLogNumberInFunction]_vars

C16_Witness ==
  /\ pc = "awaiting" /\ passError = "none"
  /\ previous.thrown = "no call"
  /\ Len(functions["first"]) = 2
  /\ functions["first"][1].cloudwatchLog = Undefined
  /\ Len(tasks) = 2
  /\ <<tasks[1].fn, tasks[1].ev>> = <<1, 2>>
  /\ tasks[2].fn = 2
  /\ getCloudWatchLogLogicalId("first", 1) \in DOMAIN Resources
  /\ getCloudWatchLogLogicalId("second", 1) \in DOMAIN Resources
  /\ getCloudWatchLogLogicalId("first", 2) \notin DOMAIN Resources

\* C17: compiling one valid event writes two keys of the template, the
\* subscription filter id and the permission id the naming provider gives
\* for the function and the index of the event, and leaves every other key
\* as it was; the subscription filter depends on the permission of the same
\* event and both refer to the lambda function of the event; a step that
\* compiles no valid event leaves the template alone.
C17_MergeWritesTwoKeys ==
  [][IF Len(tasks') = Len(tasks) + 1
       THEN LET t == tasks'[Len(tasks')]
                n == cloudWatchLogNumberInFunction + 1
                rid == getCloudWatchLogLogicalId(t.functionName, n)
                pid == getLambdaCloudWatchLogPermissionLogicalId(t.functionName, n)
                lambda == <<"Fn::GetAtt", getLambdaLogicalId(t.functionName), "Arn">>
            IN /\ t.functionName = AllFunctions[fnPos]
               /\ <<t.fn, t.ev>> = <<fnPos, evPos>>
               /\ n = Cardinality({e \in 1..evPos :
                                     Truthy(functions'[t.functionName][e].cloudwatchLog)})
               /\ DOMAIN Resources' = DOMAIN Resources \cup {rid, pid}
               /\ \A k \in DOMAIN Resources \ {rid, pid} : Resources'[k] = Resources[k]
               /\ Resources'[rid].Type = "AWS::Logs::SubscriptionFilter"
               /\ Resources'[pid].Type = "AWS::Lambda::Permission"
               /\ Resources'[rid].DependsOn = pid
               /\ Resources'[rid].Properties.DestinationArn = lambda
               /\ Resources'[pid].Properties.FunctionName = lambda
               /\ Resources'[rid].Properties.LogGroupName = t.logGroupName
               /\ getLambdaLogicalId(t.functionName) \in DOMAIN Resources'
       ELSE Resources' = Resources]_vars

C17_Witness ==
  /\ pc = "mapping"
  /\ previous.thrown = "no call"
  /\ Len(tasks) = 2
  /\ tasks[2].fn = 1
  /\ DOMAIN Resources = DOMAIN InitialResources \cup IdsOf("first", 2)
  /\ Resources[getCloudWatchLogLogicalId("first", 2)].DependsOn =
       getLambdaCloudWatchLogPermissionLogicalId("first", 2)

\* The entries the mapping of this call has merged: the well-formed ones it
\* has run on, but for the one it threw at.
Merged(p) == Mapped(p) /\ WellFormed(p) /\ ~(MappingThrew /\ p = <<fnPos, evPos>>)

\* C18: no step of a reconciliation (answer of the query, delete, warning,
\* swallowed failure) changes the template or the registry; in whatever
\* order and with whatever outcome the reconciliations run, the template
\* is the one the sequential mapping produced.
C18_ReconciliationLeavesStore ==
  /\ [][(Len(tasks') = Len(tasks) /\ tasks' # tasks) =>
          /\ Resources' = Resources
          /\ logGroupNames' = logGroupNames
          /\ functions' = functions]_vars
  /\ []((pc = "awaiting" /\ passError # "AccountIdError") =>
          /\ Resources = MergedInto(InitialResources, SelectSeq(Entries, Merged))
          /\ logGroupNames = LogGroupsOf(SelectSeq(Entries, Registered)))

C18_Witness ==
  /\ FlagEnabled
  /\ PassRanToEnd
  /\ Len(tasks) = 2
  /\ tasks[1].outcome = "DestinationMismatchHealed"
  /\ tasks[2].outcome = "QueryFailedIgnored"
  /\ Len(logGroupNames) = 2
  /\ DOMAIN Resources = DOMAIN InitialResources \cup IdsOf("first", 2)

\* The getAccountId calls of the reconciliations 1..n.
RECURSIVE AccountIdCallsOfTasks(_)
AccountIdCallsOfTasks(n) ==
  IF n = 0 THEN 0 ELSE tasks[n].accountIdCalls + AccountIdCallsOfTasks(n - 1)

\* C19: a call of compileCloudWatchLogEvents makes one getAccountId call,
\* with no event as with many; no reconciliation makes another; every
\* reconciliation is given the value of that call and compares the
\* destination it finds with the ARN built on it.
C19_AccountIdResolvedOnce ==
  /\ pc # "idle" => accountIdCalls + AccountIdCallsOfTasks(Len(tasks)) = 1
  /\ pc \in {"idle", "getAccountId"} => accountId = "none" /\ tasks = <<>>
  /\ \A i \in TaskIds :
       /\ accountId \in AccountIds
       /\ tasks[i].accountId = accountId
       /\ tasks[i].accountIdCalls = 0
       /\ tasks[i].observed = "sameDestination" <=> tasks[i].outcome = "DestinationMatches"
       /\ tasks[i].observed = "otherDestination" =>
            tasks[i].outcome \in {"DestinationMismatchWarned", "DestinationMismatchHealed",
                                  "DeleteFailed", "none"}

C19_Witness ==
  /\ PassRanToEnd
  /\ accountIdCalls = 1
  /\ Len(tasks) = 2
  /\ tasks[1].functionName = "first" /\ tasks[2].functionName = "first"
  /\ tasks[1].observed = "sameDestination"
  /\ tasks[2].observed = "otherDestination" /\ tasks[2].observedFilterName = "oldFilter"

\* C20: nothing is validated, merged or reconciled before getAccountId has
\* resolved.  When it rejects, the pass is rejected with that error: no
\* event is read, the registry stays empty, the template stays as the call
\* found it, and no describeSubscriptionFilters or deleteSubscriptionFilter
\* request is made.
C20_NothingBeforeAccountId ==
  /\ [](/\ accountId = "none" =>
            /\ tasks = <<>>
            /\ logGroupNames = <<>>
            /\ cloudWatchLogNumberInFunction = 0
            /\ Resources = previous.Resources
            /\ previous.thrown = "no call" =>
                 /\ Resources = InitialResources
                 /\ \A i \in 1..Len(Entries) : DeclarationAt(Entries[i]).t = "unread"
        /\ passError = "AccountIdError" =>
            /\ pc = "awaiting"
            /\ passPromise = "rejected"
            /\ accountId = "none")
  /\ [][pc = "getAccountId" =>
          /\ Resources' = Resources
          /\ functions' = functions
          /\ tasks' = <<>>
          /\ logGroupNames' = <<>>
          /\ passError' = "AccountIdError" \/ accountId' \in AccountIds]_vars

C20_Witness ==
  /\ passError = "AccountIdError"
  /\ passPromise = "rejected"
  /\ previous.thrown = "none"
  /\ DOMAIN Resources = DOMAIN InitialResources \cup IdsOf("first", 1) \cup IdsOf("second", 1)
  /\ tasks = <<>>

====
